---- MODULE Spec2Model ----
(***************************************************************************)
(* A model of ransona/sleep_tracker: one CameraSetup (capture device,      *)
(* serial link guarded by serial_lock, recording sinks), the Tk main       *)
(* thread that runs the periodic tick and the UI handlers, the lock-state  *)
(* dispatch threads started by send_lock_state, the experiment-id          *)
(* allocator create_exp_id with the exp_list.txt registry, and the App's   *)
(* list of setups with the UI fields that follow the active one.           *)
(***************************************************************************)
EXTENDS Integers, Sequences, FiniteSets, TLC

(* ------------------------------------------------------------------ *)
(* Bounds of the model                                                 *)
(* ------------------------------------------------------------------ *)

\* dispatch threads that can be alive at the same time
MaxWorkers == 2
\* telemetry lines that can be pending in the serial input buffer
MaxPending == 2
\* read_frame calls per recording session that obtain a frame
MaxFrames == 2
\* sinks a start_recording can leave behind without closing them
MaxOrphans == 1

\* processes that can run create_exp_id on the same repository at once
MaxProcs == 2
\* setups the configuration file can define
MaxSetups == 2
\* characters of a line handed to parse_arduino_status
MaxLineLen == 4
\* frames one setup records under the App's tick
MaxTickFrames == 1

Workers == 1..MaxWorkers
Procs == 1..MaxProcs

(* ------------------------------------------------------------------ *)
(* Text: a line is a sequence of one-character strings                  *)
(* ------------------------------------------------------------------ *)

IsSpace(c) == c \in {" ", "\n", "\r", "\t"}

RECURSIVE LStrip(_)
LStrip(s) ==
    IF s # <<>> /\ IsSpace(Head(s)) THEN LStrip(Tail(s)) ELSE s

RECURSIVE RStrip(_)
RStrip(s) ==
    IF s # <<>> /\ IsSpace(s[Len(s)]) THEN RStrip(SubSeq(s, 1, Len(s) - 1)) ELSE s

\* str.strip()
Strip(s) == RStrip(LStrip(s))

\* str.split(";"): always at least one part
RECURSIVE SplitSemi(_, _, _)
SplitSemi(s, cur, acc) ==
    IF s = <<>> THEN Append(acc, cur)
    ELSE IF Head(s) = ";" THEN SplitSemi(Tail(s), <<>>, Append(acc, cur))
    ELSE SplitSemi(Tail(s), Append(cur, Head(s)), acc)

NoStatus == <<>>

\* parts = [part.strip() for part in line.split(";")]
Parts(text) ==
    LET raw == SplitSemi(text, <<>>, <<>>)
    IN  [i \in 1..Len(raw) |-> Strip(raw[i])]

\* a guard that lets a line of more than three fields through
FewerThanThree(parts) == Len(parts) < 3

\* if len(parts) != 3: return None
WrongFieldCount(parts) == Len(parts) # 3

\* brake_raw, wheel_pos, mode = parts raises ValueError unless there are three
UnpackRaises(parts) == Len(parts) # 3

\* parse_arduino_status raises: the unpacking is reached with the wrong count
parse_raises(text) == ~WrongFieldCount(Parts(text)) /\ UnpackRaises(Parts(text))

\* CameraSetup.parse_arduino_status, what it returns
parse_arduino_status(text) ==
    LET parts == Parts(text)
    IN  IF WrongFieldCount(parts) \/ UnpackRaises(parts) THEN NoStatus
        ELSE LET brake_raw == parts[1]
                 brake_text == IF brake_raw = <<"0">> THEN <<"l","o","c","k","e","d">>
                               ELSE IF brake_raw = <<"1">>
                                    THEN <<"u","n","l","o","c","k","e","d">>
                                    ELSE brake_raw
             IN  <<brake_text, parts[2], parts[3]>>

\* the raw lines the microcontroller can send (bytes of one readline())
\* "?" stands for a byte that is not valid UTF-8
RawLines ==
    { <<"\n">>,
      <<"0", ";", "5", ";", "m", "\n">>,
      <<" ", "1", ";", "7", "\n">>,
      <<"?", "\n">> }

\* bytes.decode() raises UnicodeDecodeError
DecodeRaises(raw) == \E i \in 1..Len(raw) : raw[i] = "?"

\* bytes.decode().strip() of one readline()
DecodeLine(raw) == Strip(raw)

(* ------------------------------------------------------------------ *)
(* State                                                               *)
(* ------------------------------------------------------------------ *)

VARIABLES
    simulated,          \* self.serial is a SimulatedArduino
    lock_state,         \* CameraSetup.lock_state
    serial_lock,        \* CameraSetup.serial_lock is held
    serial_in,          \* lines pending in the serial input buffer
    wire,               \* last command token written to the serial link
    latest_status,      \* CameraSetup.latest_status
    last_arduino_line,  \* CameraSetup.last_arduino_line
    main_pc,            \* position of the Tk main thread
    tick_scheduled,     \* root.after(30, update_video) is pending
    ret,                \* read_frame: cap.read() returned a frame
    returned,           \* what the last read_frame returned ("running" during the call)
    recording,          \* CameraSetup.recording
    writer,             \* CameraSetup.writer: "none" | "open" | "closed"
    csv_file,           \* CameraSetup.csv_file: "none" | "open" | "closed"
    orphan_video,       \* video sinks replaced by start_recording, still open
    orphan_csv,         \* event sinks replaced by start_recording, still open
    frames,             \* frames held by the current video sink
    rows,               \* rows (after the header) of the current event sink
    rec_calls,          \* read_frame calls of this session that reached the recording branch
    rec_returned,       \* those of them that returned their frame
    since_last,         \* last line drained since the previous recorded frame
    row_seen,           \* since_last as it was when the newest row was written
    wrote_closed,       \* a frame or row was written to a closed sink
    last_op,            \* the last handler was stop_recording (again) or on_closing
    pc,                 \* position of each dispatch thread
    attempts,           \* _send: attempts
    command,            \* send_lock_state: command captured for the thread
    writes,             \* serial.write calls the thread has made
    fails,              \* serial.write calls of the thread that raised
    sent,               \* the thread's write succeeded
    abandoned,          \* the thread logged "Giving up after 3 send attempts."
    today,              \* the date datetime.now() reports
    dirs,               \* experiment directories that exist under remote_repo
    dirs0,              \* the directories that existed before the first call
    allocs,             \* what the create_exp_id calls so far returned
    rpc,                \* position of each process that runs create_exp_id
    rmouse,             \* create_exp_id: mouse_id of the process's call
    rdate,              \* create_exp_id: current_date of the process's call
    rbase,              \* create_exp_id: base_exp_number of the process's call
    rfound,             \* the candidate directory existed when makedirs ran
    rret,               \* the identifier the process's last call returned
    rraised,            \* the process's last call raised
    exp_list,           \* rows of exp_list.txt
    exps,               \* what the generate_and_register_exp calls so far did
    setup_exp_id,       \* CameraSetup.exp_id
    n_setups,           \* len(App.setups)
    current_setup,      \* App.current_setup
    auto_cycle,         \* App.auto_cycle
    auto_cycle_var,     \* the Auto Cycle checkbutton
    mouse_id_entry,     \* text of App.mouse_id_entry
    duration_entry,     \* text of App.duration_entry
    setups,             \* App.setups: the fields of each CameraSetup
    entered,            \* what the user last typed while each setup was active
    line,               \* parse_arduino_status: the line passed in
    status,             \* parse_arduino_status: whether it was called, raised, returned
    startup_pc,         \* the step App.__init__ and the main program have reached
    quit_called,        \* load_config called self.root.quit()
    simulate,           \* WatcherConfig.simulate
    list_rows,          \* first column of each row of the experiment list file
    processed_file,     \* lines of the processed-list file
    startup_lines,      \* the lines of that file when the watcher started
    processed,          \* run_loop: the set processed
    watcher_pc,         \* position of run_loop
    new_ids,            \* run_loop: the identifiers the for loop has yet to handle
    enqueues,           \* successful enqueue_exp calls per identifier (counted up to MaxCounted)
    failed              \* identifiers whose enqueue_exp has raised

serialVars == <<simulated, serial_lock, serial_in, wire>>
statusVars == <<latest_status, last_arduino_line>>
mainVars == <<main_pc, tick_scheduled, ret, returned, last_op>>
recVars == <<recording, writer, csv_file, orphan_video, orphan_csv, frames, rows,
             rec_calls, rec_returned, since_last, row_seen, wrote_closed>>
workerVars == <<pc, attempts, command, writes, fails, sent, abandoned>>
allocVars == <<today, dirs, dirs0, allocs>>
raceVars == <<rpc, rmouse, rdate, rbase, rfound, rret, rraised>>
regVars == <<exp_list, exps, setup_exp_id>>
appVars == <<n_setups, current_setup, auto_cycle, auto_cycle_var, mouse_id_entry,
             duration_entry, setups, entered>>
parseVars == <<line, status>>
startVars == <<startup_pc, quit_called>>
watchVars == <<simulate, list_rows, processed_file, startup_lines, processed, watcher_pc,
               new_ids, enqueues, failed>>
extVars == <<startVars, watchVars>>
deviceVars == <<lock_state, serialVars, statusVars, mainVars, recVars, workerVars>>
vars == <<deviceVars, allocVars, raceVars, regVars, appVars, parseVars, extVars>>

(* ------------------------------------------------------------------ *)
(* Construction                                                        *)
(* ------------------------------------------------------------------ *)

\* CameraSetup.__init__, then App.__init__ schedules the first tick
DeviceInit ==
    /\ simulated \in BOOLEAN
    /\ lock_state = "automatic"
    /\ serial_lock = FALSE
    /\ serial_in = <<>>
    /\ wire = ""
    /\ latest_status = NoStatus
    /\ last_arduino_line = <<>>
    /\ main_pc = "idle"
    /\ tick_scheduled = TRUE
    /\ ret = FALSE
    /\ returned = "nothing"
    /\ last_op = "none"
    /\ recording = FALSE
    /\ writer = "none"
    /\ csv_file = "none"
    /\ orphan_video = 0
    /\ orphan_csv = 0
    /\ frames = <<>>
    /\ rows = <<>>
    /\ rec_calls = 0
    /\ rec_returned = 0
    /\ since_last = <<>>
    /\ row_seen = <<>>
    /\ wrote_closed = FALSE
    /\ pc = [w \in Workers |-> "idle"]
    /\ attempts = [w \in Workers |-> 0]
    /\ command = [w \in Workers |-> ""]
    /\ writes = [w \in Workers |-> 0]
    /\ fails = [w \in Workers |-> 0]
    /\ sent = [w \in Workers |-> FALSE]
    /\ abandoned = [w \in Workers |-> FALSE]

\* a remote repository that holds no experiment directory yet
FreshRoot ==
    /\ today = 1
    /\ dirs = {}
    /\ dirs0 = {}
    /\ allocs = <<>>

\* no process is inside create_exp_id
NoCalls ==
    /\ rpc = [p \in Procs |-> "idle"]
    /\ rmouse = [p \in Procs |-> ""]
    /\ rdate = [p \in Procs |-> 0]
    /\ rbase = [p \in Procs |-> 0]
    /\ rfound = [p \in Procs |-> FALSE]
    /\ rret = [p \in Procs |-> <<>>]
    /\ rraised = [p \in Procs |-> FALSE]

\* exp_list.txt holds no row; self.exp_id = ""
EmptyRegistry ==
    /\ exp_list = <<>>
    /\ exps = <<>>
    /\ setup_exp_id = <<>>

\* CameraSetup.__init__: the fields the App reads and writes per setup.
\* frames counts the frames of the setup's video sink (each with its row),
\* command is the token of the setup's live dispatch thread ("" if none).
NewSetup ==
    [lock_state |-> "automatic", recording |-> FALSE, mouse_id |-> <<>>,
     session_duration |-> 0, latest_status |-> NoStatus, last_arduino_line |-> <<>>,
     elapsed_time |-> 0, frames |-> 0, command |-> ""]

\* App.__init__ with n usable setups in configuration.txt; build_gui leaves
\* both entries empty and the Auto Cycle box unchecked
AppInit(n) ==
    /\ n_setups = n
    /\ current_setup = 0
    /\ auto_cycle = FALSE
    /\ auto_cycle_var = FALSE
    /\ mouse_id_entry = <<>>
    /\ duration_entry = <<>>
    /\ setups = [i \in 0..(n - 1) |-> NewSetup]
    /\ entered = [i \in 0..(n - 1) |-> [mouse_id |-> <<>>, duration |-> <<>>]]

\* parse_arduino_status has not been handed a line
NoLine ==
    /\ line = <<>>
    /\ status = [called |-> FALSE, raised |-> FALSE, value |-> NoStatus]

\* identifiers the watcher can meet, and what a row or line can hold of them
Ids == {<<"a">>, <<"b">>}
RowTexts == {<<>>, <<"a">>, <<" ", "a">>, <<"b">>}

\* the watcher has not been started: no list, no processed-list file
WatcherIdle ==
    /\ simulate = FALSE
    /\ list_rows = <<>>
    /\ processed_file = <<>>
    /\ startup_lines = <<>>
    /\ processed = {}
    /\ watcher_pc = "off"
    /\ new_ids = <<>>
    /\ enqueues = [id \in Ids |-> 0]
    /\ failed = {}

\* App.__init__ has returned and root.mainloop() runs
Running ==
    /\ startup_pc = "mainloop"
    /\ quit_called = FALSE

Init == DeviceInit /\ FreshRoot /\ NoCalls /\ EmptyRegistry /\ AppInit(1) /\ NoLine /\ Running /\ WatcherIdle

(* ------------------------------------------------------------------ *)
(* The serial link                                                     *)
(* ------------------------------------------------------------------ *)

\* the microcontroller sends one more telemetry line (real link only)
Arrive ==
    /\ ~simulated
    /\ Len(serial_in) < MaxPending
    /\ \E raw \in RawLines : serial_in' = Append(serial_in, raw)
    /\ UNCHANGED <<simulated, serial_lock, wire, lock_state, statusVars, mainVars,
                   recVars, workerVars>>
    /\ UNCHANGED <<allocVars, raceVars, regVars, appVars, parseVars, extVars>>

\* serial.in_waiting: SimulatedArduino.in_waiting is always False
in_waiting == ~simulated /\ serial_in # <<>>

\* a stand-in whose write can raise like the real port's
WriteOutcomesReal == BOOLEAN

\* serial.write(command) returns: SimulatedArduino.write never raises
WriteOutcomes == IF simulated THEN {TRUE} ELSE BOOLEAN

(* ------------------------------------------------------------------ *)
(* Lock-state dispatch: send_lock_state and its _send thread            *)
(* ------------------------------------------------------------------ *)

command_map(state) ==
    CASE state = "automatic" -> "a"
      [] state = "locked" -> "b"
      [] state = "unlocked" -> "c"

\* a thread slot that holds no live thread
FreeSlot(w) == pc[w] \in {"idle", "done"}

HasFreeSlot == \E w \in Workers : FreeSlot(w)

NewSlot == CHOOSE w \in Workers : FreeSlot(w) /\ \A v \in Workers : FreeSlot(v) => w <= v

\* send_lock_state: capture the command of the given state, start a thread
send_lock_state(state) ==
    LET w == NewSlot
    IN  /\ pc' = [pc EXCEPT ![w] = "loop"]
        /\ attempts' = [attempts EXCEPT ![w] = 0]
        /\ command' = [command EXCEPT ![w] = command_map(state)]
        /\ writes' = [writes EXCEPT ![w] = 0]
        /\ fails' = [fails EXCEPT ![w] = 0]
        /\ sent' = [sent EXCEPT ![w] = FALSE]
        /\ abandoned' = [abandoned EXCEPT ![w] = FALSE]

\* the bound of the retry loop
MaxAttempts == 3

\* an off-by-one loop test
MoreAttemptsInclusive(w) == attempts[w] <= MaxAttempts

\* _send: while attempts < 3
MoreAttempts(w) == attempts[w] < MaxAttempts

\* _send: the loop test, attempts += 1, or the final warning
send_loop(w) ==
    /\ pc[w] = "loop"
    /\ IF MoreAttempts(w)
       THEN /\ attempts' = [attempts EXCEPT ![w] = @ + 1]
            /\ pc' = [pc EXCEPT ![w] = "acquire"]
            /\ UNCHANGED abandoned
       ELSE /\ abandoned' = [abandoned EXCEPT ![w] = TRUE]
            /\ pc' = [pc EXCEPT ![w] = "done"]
            /\ UNCHANGED attempts
    /\ UNCHANGED <<command, writes, fails, sent, lock_state, serialVars, statusVars,
                   mainVars, recVars>>
    /\ UNCHANGED <<allocVars, raceVars, regVars, appVars, parseVars, extVars>>

\* a thread that writes without taking the lock
send_acquire_unguarded(w) ==
    /\ pc[w] = "acquire"
    /\ serial_lock' = TRUE
    /\ pc' = [pc EXCEPT ![w] = "write"]
    /\ UNCHANGED <<simulated, serial_in, wire, attempts, command, writes, fails, sent,
                   abandoned, lock_state, statusVars, mainVars, recVars>>
    /\ UNCHANGED <<allocVars, raceVars, regVars, appVars, parseVars, extVars>>

\* _send: with self.serial_lock (enter)
send_acquire(w) ==
    /\ pc[w] = "acquire"
    /\ ~serial_lock
    /\ serial_lock' = TRUE
    /\ pc' = [pc EXCEPT ![w] = "write"]
    /\ UNCHANGED <<simulated, serial_in, wire, attempts, command, writes, fails, sent,
                   abandoned, lock_state, statusVars, mainVars, recVars>>
    /\ UNCHANGED <<allocVars, raceVars, regVars, appVars, parseVars, extVars>>

\* a thread that looks the command up again when it writes
written_from_lock_state(w) == command_map(lock_state)

\* the argument of self.serial.write(command): the command the closure captured
written(w) == command[w]

\* a thread that sleeps inside the with block after a failed write
send_write_keeps_lock(w) ==
    /\ pc[w] = "write"
    /\ \E ok \in WriteOutcomes :
         /\ writes' = [writes EXCEPT ![w] = @ + 1]
         /\ IF ok
            THEN /\ wire' = command[w]
                 /\ sent' = [sent EXCEPT ![w] = TRUE]
                 /\ pc' = [pc EXCEPT ![w] = "done"]
                 /\ serial_lock' = FALSE
                 /\ UNCHANGED fails
            ELSE /\ fails' = [fails EXCEPT ![w] = @ + 1]
                 /\ pc' = [pc EXCEPT ![w] = "sleep"]
                 /\ UNCHANGED <<wire, sent, serial_lock>>
    /\ UNCHANGED <<simulated, serial_in, attempts, command, abandoned, lock_state,
                   statusVars, mainVars, recVars>>
    /\ UNCHANGED <<allocVars, raceVars, regVars, appVars, parseVars, extVars>>

\* _send: self.serial.write(command), leave the with block; return or except
send_write(w) ==
    /\ pc[w] = "write"
    /\ \E ok \in WriteOutcomes :
         /\ writes' = [writes EXCEPT ![w] = @ + 1]
         /\ serial_lock' = FALSE
         /\ IF ok
            THEN /\ wire' = written(w)
                 /\ sent' = [sent EXCEPT ![w] = TRUE]
                 /\ pc' = [pc EXCEPT ![w] = "done"]
                 /\ UNCHANGED fails
            ELSE /\ fails' = [fails EXCEPT ![w] = @ + 1]
                 /\ pc' = [pc EXCEPT ![w] = "sleep"]
                 /\ UNCHANGED <<wire, sent>>
    /\ UNCHANGED <<simulated, serial_in, attempts, command, abandoned, lock_state,
                   statusVars, mainVars, recVars>>
    /\ UNCHANGED <<allocVars, raceVars, regVars, appVars, parseVars, extVars>>

\* _send: time.sleep(0.1) is over
send_backoff(w) ==
    /\ pc[w] = "sleep"
    /\ pc' = [pc EXCEPT ![w] = "loop"]
    /\ UNCHANGED <<attempts, command, writes, fails, sent, abandoned, lock_state,
                   serialVars, statusVars, mainVars, recVars>>
    /\ UNCHANGED <<allocVars, raceVars, regVars, appVars, parseVars, extVars>>

(* ------------------------------------------------------------------ *)
(* The Tk main thread: UI handlers and the periodic tick                 *)
(* ------------------------------------------------------------------ *)

\* a toggle that never reaches "locked"
next_lock_state_two(state) ==
    IF state = "automatic" THEN "unlocked" ELSE "automatic"

\* App.toggle_lock_state
next_lock_state(state) ==
    IF state = "automatic" THEN "unlocked"
    ELSE IF state = "unlocked" THEN "locked"
    ELSE "automatic"

toggle_lock_state ==
    /\ main_pc = "idle"
    /\ HasFreeSlot
    /\ lock_state' = next_lock_state(lock_state)
    /\ send_lock_state(lock_state')
    /\ last_op' = "none"
    /\ UNCHANGED <<main_pc, tick_scheduled, ret, returned, serialVars, statusVars, recVars>>
    /\ UNCHANGED <<allocVars, raceVars, regVars, appVars, parseVars, extVars>>

\* CameraSetup.start_recording rebinds self.writer and self.csv_file without
\* releasing the objects they held: an open sink that is replaced is closed
\* only if the runtime finalizes the dropped object.
Replaced(sink, count, finalized) ==
    IF sink = "open" /\ ~finalized THEN count + 1 ELSE count

\* CameraSetup.start_recording, on the setup's fields.  The experiment id and
\* the paths derived from it are inputs of the session, not part of this state.
StartRecording ==
    /\ \E finalized \in BOOLEAN :
         /\ orphan_video' = Replaced(writer, orphan_video, finalized)
         /\ orphan_csv' = Replaced(csv_file, orphan_csv, finalized)
         /\ orphan_video' <= MaxOrphans
    /\ writer' = "open"
    /\ csv_file' = "open"
    /\ frames' = <<>>
    /\ rows' = <<>>
    /\ rec_calls' = 0
    /\ rec_returned' = 0
    /\ since_last' = <<>>
    /\ row_seen' = <<>>
    /\ recording' = TRUE
    /\ UNCHANGED wrote_closed

\* a caller on the main thread calls setup.start_recording(...)
setup_start_recording ==
    /\ main_pc = "idle"
    /\ StartRecording
    /\ last_op' = "none"
    /\ UNCHANGED <<main_pc, tick_scheduled, ret, returned, lock_state, serialVars,
                   statusVars, workerVars>>
    /\ UNCHANGED <<allocVars, raceVars, regVars, appVars, parseVars, extVars>>

\* VideoWriter.release() / file.close(): nothing to do without a sink
Closed(sink) == IF sink = "none" THEN "none" ELSE "closed"

\* a stop_recording that releases the video writer and forgets the csv file
StopRecordingVideoOnly ==
    /\ recording' = FALSE
    /\ writer' = Closed(writer)
    /\ UNCHANGED <<csv_file, orphan_video, orphan_csv, frames, rows, rec_calls, rec_returned,
                   since_last, row_seen, wrote_closed>>

\* CameraSetup.stop_recording, on the setup's fields
StopRecording ==
    /\ recording' = FALSE
    /\ writer' = Closed(writer)
    /\ csv_file' = Closed(csv_file)
    /\ UNCHANGED <<orphan_video, orphan_csv, frames, rows, rec_calls, rec_returned,
                   since_last, row_seen, wrote_closed>>

\* App.stop_recording
stop_recording ==
    /\ main_pc = "idle"
    /\ StopRecording
    /\ last_op' = IF last_op \in {"stop", "stop_again"} THEN "stop_again" ELSE "stop"
    /\ UNCHANGED <<main_pc, tick_scheduled, ret, returned, lock_state, serialVars,
                   statusVars, workerVars>>
    /\ UNCHANGED <<allocVars, raceVars, regVars, appVars, parseVars, extVars>>

\* App.on_closing: running = False, cap.release(), stop_recording(), destroy
on_closing ==
    /\ main_pc = "idle"
    /\ StopRecording
    /\ main_pc' = "closed"
    /\ tick_scheduled' = FALSE
    /\ last_op' = "close"
    /\ UNCHANGED <<ret, returned, lock_state, serialVars, statusVars, workerVars>>
    /\ UNCHANGED <<allocVars, raceVars, regVars, appVars, parseVars, extVars>>

\* App.update_video -> read_frame: ret, frame = self.cap.read()
read_frame_capture ==
    /\ main_pc = "idle"
    /\ tick_scheduled
    /\ \E r \in BOOLEAN :
         /\ (r /\ recording) => rec_calls < MaxFrames
         /\ ret' = r
    /\ returned' = "running"
    /\ main_pc' = "rf_lock"
    /\ UNCHANGED <<tick_scheduled, last_op, lock_state, serialVars, statusVars,
                   recVars, workerVars>>
    /\ UNCHANGED <<allocVars, raceVars, regVars, appVars, parseVars, extVars>>

\* read_frame: with self.serial_lock (enter)
read_frame_acquire ==
    /\ main_pc = "rf_lock"
    /\ ~serial_lock
    /\ serial_lock' = TRUE
    /\ main_pc' = "rf_drain"
    /\ UNCHANGED <<simulated, serial_in, wire, tick_scheduled, ret, returned, last_op,
                   lock_state, statusVars, recVars, workerVars>>
    /\ UNCHANGED <<allocVars, raceVars, regVars, appVars, parseVars, extVars>>

\* the lines the drain loop reads: while self.serial.in_waiting
Pending == IF in_waiting THEN serial_in ELSE <<>>

\* index of the first pending line whose decode raises, 0 if none
FirstBad(lines) ==
    IF \E i \in 1..Len(lines) : DecodeRaises(lines[i])
    THEN CHOOSE i \in 1..Len(lines) :
            /\ DecodeRaises(lines[i])
            /\ \A j \in 1..(i - 1) : ~DecodeRaises(lines[j])
    ELSE 0

\* arduino_data after a loop that keeps the first line it read
DrainedFirst(lines) == IF lines = <<>> THEN <<>> ELSE DecodeLine(lines[1])

\* arduino_data after the loop: the last decoded line, "" if none was read
Drained(lines) == IF lines = <<>> THEN <<>> ELSE DecodeLine(lines[Len(lines)])

\* what the two sink writes of one recorded frame can do
VideoOutcomes == {"ok", "dropped", "raised"}
EventOutcomes == {"ok", "raised"}

\* read_frame: the recording branch, self.writer.write(frame) and then
\* self.csv_writer.writerow([timestamp, arduino_data]).  A frame is named by
\* its ordinal among the session's recorded calls; the row's timestamp is
\* represented by the ordinal of the frame it was written for.  seen is the
\* last line drained since the previous recorded frame; it is remembered
\* beside the row that was written at that moment.
AppendFrame(arduino_data, seen, vout, eout) ==
    LET k == rec_calls + 1
    IN  /\ rec_calls' = k
        /\ frames' = IF vout = "ok" THEN Append(frames, k) ELSE frames
        /\ rows' = IF vout # "raised" /\ eout = "ok"
                   THEN Append(rows, [frame |-> k, arduino_data |-> arduino_data])
                   ELSE rows
        /\ row_seen' = IF Len(rows') > Len(rows) THEN seen ELSE row_seen
        /\ wrote_closed' = (wrote_closed \/ writer # "open" \/ csv_file # "open")
        /\ since_last' = <<>>
        /\ returned' = IF vout = "raised" \/ eout = "raised" THEN "raised" ELSE "frame"
        /\ rec_returned' = IF returned' = "frame" THEN rec_returned + 1 ELSE rec_returned

\* read_frame: the drain under the lock, leaving the with block, and the rest
\* of the call; then update_video re-arms the timer unless read_frame raised
read_frame_drain ==
    /\ main_pc = "rf_drain"
    /\ serial_lock' = FALSE
    /\ main_pc' = "idle"
    /\ last_op' = "none"
    /\ LET lines == Pending
           bad == FirstBad(lines)
           arduino_data == Drained(lines)
           seen == IF lines # <<>> THEN arduino_data ELSE since_last
       IN  IF bad # 0
           THEN /\ serial_in' = SubSeq(serial_in, bad + 1, Len(serial_in))
                /\ returned' = "raised"
                /\ since_last' = IF bad > 1 THEN DecodeLine(lines[bad - 1]) ELSE since_last
                /\ UNCHANGED <<statusVars, recording, writer, csv_file, orphan_video,
                               orphan_csv, frames, rows, rec_calls, rec_returned,
                               row_seen, wrote_closed>>
           ELSE /\ serial_in' = IF in_waiting THEN <<>> ELSE serial_in
                /\ IF arduino_data # <<>>
                   THEN /\ latest_status' = parse_arduino_status(arduino_data)
                        /\ last_arduino_line' = arduino_data
                   ELSE UNCHANGED statusVars
                /\ IF ret /\ recording
                   THEN \E vout \in VideoOutcomes, eout \in EventOutcomes :
                            AppendFrame(arduino_data, seen, vout, eout)
                   ELSE /\ returned' = IF ret THEN "frame" ELSE "nothing"
                        /\ since_last' = seen
                        /\ UNCHANGED <<frames, rows, rec_calls, rec_returned, row_seen,
                                       wrote_closed>>
                /\ UNCHANGED <<recording, writer, csv_file, orphan_video, orphan_csv>>
    /\ tick_scheduled' = (returned' # "raised")
    /\ UNCHANGED <<simulated, wire, ret, lock_state, workerVars>>
    /\ UNCHANGED <<allocVars, raceVars, regVars, appVars, parseVars, extVars>>

(* ------------------------------------------------------------------ *)
(* Specifications                                                      *)
(* ------------------------------------------------------------------ *)

\* lock-state dispatch against the tick: toggles, dispatch threads, read_frame
NextDispatch ==
    \/ toggle_lock_state
    \/ read_frame_capture
    \/ read_frame_acquire
    \/ read_frame_drain
    \/ \E w \in Workers : send_loop(w)
    \/ \E w \in Workers : send_acquire(w)
    \/ \E w \in Workers : send_write(w)
    \/ \E w \in Workers : send_backoff(w)

DispatchSpec == Init /\ [][NextDispatch]_vars

\* lock-state dispatch on its own: toggles and the threads they start
NextCommand ==
    \/ toggle_lock_state
    \/ \E w \in Workers : send_loop(w)
    \/ \E w \in Workers : send_acquire(w)
    \/ \E w \in Workers : send_write(w)
    \/ \E w \in Workers : send_backoff(w)

CommandSpec == Init /\ [][NextCommand]_vars

\* the recording pipeline of one setup driven from the main thread
NextRecord ==
    \/ Arrive
    \/ setup_start_recording
    \/ stop_recording
    \/ on_closing
    \/ read_frame_capture
    \/ read_frame_acquire
    \/ read_frame_drain

RecordSpec == Init /\ [][NextRecord]_vars

\* one setup's recording sessions on a silent serial link: the UI handlers
\* and the periodic tick, with no telemetry arriving
NextSession ==
    \/ setup_start_recording
    \/ stop_recording
    \/ on_closing
    \/ read_frame_capture
    \/ read_frame_acquire
    \/ read_frame_drain

SessionSpec == Init /\ [][NextSession]_vars

\* telemetry against the tick: lines arrive, read_frame drains them
NextTelemetry ==
    \/ Arrive
    \/ read_frame_capture
    \/ read_frame_acquire
    \/ read_frame_drain

TelemetrySpec == Init /\ [][NextTelemetry]_vars

(* ------------------------------------------------------------------ *)
(* Experiment identity: create_exp_id                                   *)
(* ------------------------------------------------------------------ *)

\* create_exp_id calls one run makes
MaxAllocs == 3
\* highest sequence number another tool may have used before the first call
MaxExisting == 3
\* days the run spans
MaxDays == 2
\* a root on which the single-digit sequence numbers are all used
UsedDigits == 9

\* the subject ids the UI can pass: "" stands for an empty entry
MouseIds == {"", "m1", "m2"}

\* safe_mouse_id = mouse_id if mouse_id else "unknown"
safe_mouse_id(mouse_id) == IF mouse_id = "" THEN "unknown" ELSE mouse_id

\* the decimal digits of n >= 0, most significant first
RECURSIVE Digits(_)
Digits(n) == IF n < 10 THEN <<n>> ELSE Append(Digits(n \div 10), n % 10)

\* f"{base_exp_number:02d}"
Format02d(n) == IF n < 10 THEN <<0, n>> ELSE Digits(n)

\* f"{current_date}_{base_exp_number_str}_{safe_mouse_id}"; candidate_dir is
\* animal_dir joined with it, so the identifier names the directory
possible_exp_id(date, n, mouse_id) == <<date, Format02d(n), safe_mouse_id(mouse_id)>>

\* os.path.exists(candidate_dir)
Exists(existing, exp_id) == exp_id \in existing

\* a call that returns the name without creating the directory
MakeDirsSkipped(existing, exp_id) == existing

\* os.makedirs(candidate_dir, exist_ok=True)
MakeDirs(existing, exp_id) == existing \cup {exp_id}

\* the while loop: base_exp_number += 1 until the candidate does not exist
RECURSIVE FirstUnused(_, _, _, _)
FirstUnused(existing, date, mouse_id, base_exp_number) ==
    LET n == base_exp_number + 1
    IN  IF ~Exists(existing, possible_exp_id(date, n, mouse_id))
        THEN n
        ELSE FirstUnused(existing, date, mouse_id, n)

\* one whole create_exp_id call; it raises when the repository cannot be reached
CreateExpId(mouse_id, reachable) ==
    IF reachable
    THEN LET n == FirstUnused(dirs, today, mouse_id, 0)
             exp_id == possible_exp_id(today, n, mouse_id)
         IN  /\ dirs' = MakeDirs(dirs, exp_id)
             /\ allocs' = Append(allocs, [raised |-> FALSE, mouse_id |-> mouse_id,
                                          date |-> today, n |-> n, exp_id |-> exp_id])
    ELSE /\ allocs' = Append(allocs, [raised |-> TRUE, mouse_id |-> mouse_id,
                                      date |-> today, n |-> 0, exp_id |-> <<>>])
         /\ UNCHANGED dirs

\* a caller calls create_exp_id(mouse_id, remote_repo)
create_exp_id ==
    /\ Len(allocs) < MaxAllocs
    /\ \E mouse_id \in MouseIds, reachable \in BOOLEAN : CreateExpId(mouse_id, reachable)
    /\ UNCHANGED <<today, dirs0, deviceVars, raceVars, regVars, appVars, parseVars, extVars>>

\* midnight passes: datetime.now() reports the next date
NextDay ==
    /\ today < MaxDays
    /\ today' = today + 1
    /\ UNCHANGED <<dirs, dirs0, allocs, deviceVars, raceVars, regVars, appVars, parseVars, extVars>>

\* directories of subject m1 for day 1 that are there before the program runs
Existing(ns) == {possible_exp_id(1, n, "m1") : n \in ns}

\* the repository the first call finds: fresh, used by another tool (with or
\* without gaps in the numbering), or with 01..09 taken
AllocInit ==
    /\ DeviceInit
    /\ simulated
    /\ today = 1
    /\ dirs \in {Existing(ns) : ns \in SUBSET (1..MaxExisting)} \cup {Existing(1..UsedDigits)}
    /\ dirs0 = dirs
    /\ allocs = <<>>
    /\ NoCalls
    /\ EmptyRegistry
    /\ Running
    /\ WatcherIdle
    /\ AppInit(1)
    /\ NoLine

NextAlloc ==
    \/ create_exp_id
    \/ NextDay

AllocSpec == AllocInit /\ [][NextAlloc]_vars

(* ------------------------------------------------------------------ *)
(* parse_arduino_status on its own                                     *)
(* ------------------------------------------------------------------ *)

\* the characters a line is made of here: digits of the brake field, another
\* character, the separator and white space
LineChars == {"0", "1", "x", ";", " "}

\* all texts of exactly n characters
RECURSIVE TextsOfLen(_)
TextsOfLen(n) ==
    IF n = 0 THEN {<<>>}
    ELSE {Append(t, c) : t \in TextsOfLen(n - 1), c \in LineChars}

Lines == UNION {TextsOfLen(n) : n \in 0..MaxLineLen}

\* some caller holds a line, parse_arduino_status has not been called
ParseInit ==
    /\ DeviceInit /\ simulated
    /\ FreshRoot /\ NoCalls /\ EmptyRegistry /\ AppInit(1) /\ Running /\ WatcherIdle
    /\ line \in Lines
    /\ status = [called |-> FALSE, raised |-> FALSE, value |-> NoStatus]

\* status = self.parse_arduino_status(line)
parse ==
    /\ ~status.called
    /\ status' = [called |-> TRUE,
                  raised |-> parse_raises(line),
                  value |-> IF parse_raises(line) THEN NoStatus
                            ELSE parse_arduino_status(line)]
    /\ UNCHANGED <<line, deviceVars, allocVars, raceVars, regVars, appVars, extVars>>

ParseSpec == ParseInit /\ [][parse]_vars

(* ------------------------------------------------------------------ *)
(* Registration: generate_and_register_exp and App.start_recording      *)
(* ------------------------------------------------------------------ *)

\* f"{datetime.now().strftime('%Y-%m-%d')}_01_{mouse_id or 'unknown'}"
FallbackExpId(date, mouse_id) ==
    <<date, <<0, 1>>, IF mouse_id = "" THEN "unknown" ELSE mouse_id>>

\* append_exp_list: one row [exp_id, datetime.now().isoformat()] at the end
append_exp_list(listing, exp_id) == Append(listing, <<exp_id, today>>)

\* generate_and_register_exp(mouse_id): create_exp_id, then append_exp_list
\* unless create_exp_id raised; either call can fail on the shared storage
\* (reachable, listed) and each failure is logged as one warning.  The local
\* directory is taken to be writable.
generate_and_register_exp(mouse_id, reachable, listed) ==
    LET created == allocs'[Len(allocs')]
        exp_id == IF created.raised THEN FallbackExpId(today, mouse_id)
                  ELSE created.exp_id
    IN  /\ CreateExpId(mouse_id, reachable)
        /\ exp_list' = IF ~created.raised /\ listed
                       THEN append_exp_list(exp_list, exp_id)
                       ELSE exp_list
        /\ exps' = Append(exps, [mouse_id |-> mouse_id,
                                 exp_id |-> exp_id,
                                 remote_exp_dir |-> IF created.raised THEN <<>> ELSE exp_id,
                                 warnings |-> IF created.raised \/ ~listed THEN 1 ELSE 0,
                                 listed |-> ~created.raised /\ listed])

\* the Mouse IDs start_recording accepts: the stripped entry is not empty
EnteredMouseIds == MouseIds \ {""}

\* App.start_recording: with a Mouse ID entered (and a zero duration
\* confirmed), generate_and_register_exp, setup.exp_id = exp_id,
\* setup.start_recording(...), then setup.send_lock_state()
start_recording ==
    /\ main_pc = "idle"
    /\ HasFreeSlot
    /\ Len(allocs) < MaxAllocs
    /\ \E mouse_id \in EnteredMouseIds, reachable \in BOOLEAN, listed \in BOOLEAN :
         generate_and_register_exp(mouse_id, reachable, listed)
    /\ setup_exp_id' = exps'[Len(exps')].exp_id
    /\ StartRecording
    /\ send_lock_state(lock_state)
    /\ last_op' = "none"
    /\ UNCHANGED <<main_pc, tick_scheduled, ret, returned, lock_state, serialVars,
                   statusVars>>
    /\ UNCHANGED <<today, dirs0, raceVars, appVars, parseVars, extVars>>

\* the recording sessions of one setup as the user starts and stops them
\* in the course of a day, with its dispatch threads
NextRegister ==
    \/ start_recording
    \/ stop_recording
    \/ \E w \in Workers : send_loop(w)
    \/ \E w \in Workers : send_acquire(w)
    \/ \E w \in Workers : send_write(w)
    \/ \E w \in Workers : send_backoff(w)

RegisterSpec == Init /\ [][NextRegister]_vars

\* the whole application: UI handlers, tick, telemetry and dispatch threads
Next ==
    \/ Arrive
    \/ toggle_lock_state
    \/ start_recording
    \/ stop_recording
    \/ on_closing
    \/ read_frame_capture
    \/ read_frame_acquire
    \/ read_frame_drain
    \/ \E w \in Workers : send_loop(w)
    \/ \E w \in Workers : send_acquire(w)
    \/ \E w \in Workers : send_write(w)
    \/ \E w \in Workers : send_backoff(w)

Spec == Init /\ [][Next]_vars

(* ------------------------------------------------------------------ *)
(* The App: its list of setups, the active one, the two entries         *)
(* ------------------------------------------------------------------ *)

\* what the user types into the Mouse ID entry and into the duration entry
MouseTexts == {<<>>, <<" ", "b">>}
DurationTexts == {<<>>, <<"5">>, <<"0", "5">>, <<"x">>}

IsDigit(c) == c \in {"0", "1", "2", "3", "4", "5", "6", "7", "8", "9"}

DigitValue(c) ==
    CASE c = "0" -> 0 [] c = "1" -> 1 [] c = "2" -> 2 [] c = "3" -> 3 [] c = "4" -> 4
      [] c = "5" -> 5 [] c = "6" -> 6 [] c = "7" -> 7 [] c = "8" -> 8 [] c = "9" -> 9

DigitChar(d) == <<"0", "1", "2", "3", "4", "5", "6", "7", "8", "9">>[d + 1]

\* int(text) raises ValueError: no digits, or something that is not a digit
\* (the texts here carry no sign)
IntRaises(text) ==
    \/ Strip(text) = <<>>
    \/ \E i \in 1..Len(Strip(text)) : ~IsDigit(Strip(text)[i])

\* the value of a run of digits
RECURSIVE DigitsValue(_)
DigitsValue(ds) ==
    IF ds = <<>> THEN 0
    ELSE 10 * DigitsValue(SubSeq(ds, 1, Len(ds) - 1)) + DigitValue(ds[Len(ds)])

\* try: int(self.duration_entry.get()) except ValueError: 0
int_or_zero(text) == IF IntRaises(text) THEN 0 ELSE DigitsValue(Strip(text))

\* str(n) for n >= 0
Str(n) == [i \in 1..Len(Digits(n)) |-> DigitChar(Digits(n)[i])]

Indexes == 0..(n_setups - 1)

\* the user edits the Mouse ID entry
type_mouse_id ==
    /\ \E text \in MouseTexts :
         /\ mouse_id_entry' = text
         /\ entered' = [entered EXCEPT ![current_setup].mouse_id = text]
    /\ UNCHANGED <<n_setups, current_setup, auto_cycle, auto_cycle_var, duration_entry,
                   setups>>
    /\ UNCHANGED <<deviceVars, allocVars, raceVars, regVars, parseVars, extVars>>

\* the user edits the duration entry
type_duration ==
    /\ \E text \in DurationTexts :
         /\ duration_entry' = text
         /\ entered' = [entered EXCEPT ![current_setup].duration = text]
    /\ UNCHANGED <<n_setups, current_setup, auto_cycle, auto_cycle_var, mouse_id_entry,
                   setups>>
    /\ UNCHANGED <<deviceVars, allocVars, raceVars, regVars, parseVars, extVars>>

\* a switch that stores nothing in the outgoing setup
save_nothing == setups

\* save_current_setup_settings: App.setups afterwards
save_current_setup_settings ==
    [setups EXCEPT ![current_setup].mouse_id = mouse_id_entry,
                   ![current_setup].session_duration = int_or_zero(duration_entry)]

\* an index that stops at either end of the list
advance_clamped(i, step) ==
    IF i + step < 0 THEN 0 ELSE IF i + step >= n_setups THEN n_setups - 1 ELSE i + step

\* (self.current_setup + step) % len(self.setups)
advance(i, step) == (i + step) % n_setups

\* prev_setup / next_setup: save, move the index, load_current_setup_settings
Switch(step) ==
    /\ setups' = save_current_setup_settings
    /\ current_setup' = advance(current_setup, step)
    /\ mouse_id_entry' = setups'[current_setup'].mouse_id
    /\ duration_entry' = Str(setups'[current_setup'].session_duration)
    /\ UNCHANGED <<n_setups, entered>>

\* App.next_setup, from the Next button
next_setup ==
    /\ Switch(1)
    /\ UNCHANGED <<auto_cycle, auto_cycle_var>>
    /\ UNCHANGED <<deviceVars, allocVars, raceVars, regVars, parseVars, extVars>>

\* App.prev_setup
prev_setup ==
    /\ Switch(-1)
    /\ UNCHANGED <<auto_cycle, auto_cycle_var>>
    /\ UNCHANGED <<deviceVars, allocVars, raceVars, regVars, parseVars, extVars>>

\* the Auto Cycle box is clicked: App.toggle_auto_cycle
toggle_auto_cycle ==
    /\ auto_cycle_var' = ~auto_cycle_var
    /\ auto_cycle' = auto_cycle_var'
    /\ UNCHANGED <<n_setups, current_setup, mouse_id_entry, duration_entry, setups, entered>>
    /\ UNCHANGED <<deviceVars, allocVars, raceVars, regVars, parseVars, extVars>>

\* App.auto_cycle_loop, each time its timer fires (it re-arms itself)
auto_cycle_loop ==
    /\ IF auto_cycle
       THEN Switch(1)
       ELSE UNCHANGED <<n_setups, current_setup, mouse_id_entry, duration_entry, setups,
                        entered>>
    /\ UNCHANGED <<auto_cycle, auto_cycle_var>>
    /\ UNCHANGED <<deviceVars, allocVars, raceVars, regVars, parseVars, extVars>>

\* the rest of the App layer leaves the UI fields alone
AppFrame ==
    /\ UNCHANGED <<n_setups, current_setup, auto_cycle, auto_cycle_var, mouse_id_entry,
                   duration_entry, entered>>
    /\ UNCHANGED <<deviceVars, allocVars, raceVars, regVars, parseVars, extVars>>

\* App.toggle_lock_state on the active setup; send_lock_state captures the
\* command and starts the thread (one thread per setup is followed here)
App_toggle_lock_state ==
    LET new == next_lock_state(setups[current_setup].lock_state)
    IN  /\ setups[current_setup].command = ""
        /\ setups' = [setups EXCEPT ![current_setup].lock_state = new,
                                    ![current_setup].command = command_map(new)]
        /\ AppFrame

\* App.start_recording on the active setup, with a Mouse ID entered (and a
\* zero duration confirmed).  The experiment identifier it obtains is the
\* subject of start_recording above and is left out of these fields.
App_start_recording ==
    /\ Strip(mouse_id_entry) # <<>>
    /\ setups[current_setup].command = ""
    /\ setups' = [setups EXCEPT
                    ![current_setup].mouse_id = Strip(mouse_id_entry),
                    ![current_setup].session_duration = int_or_zero(duration_entry),
                    ![current_setup].frames = 0,
                    ![current_setup].recording = TRUE,
                    ![current_setup].command = command_map(setups[current_setup].lock_state)]
    /\ AppFrame

\* App.stop_recording on the active setup
App_stop_recording ==
    /\ setups' = [setups EXCEPT ![current_setup].recording = FALSE]
    /\ AppFrame

\* the _send thread of setup i runs to its end: it writes its command to the
\* setup's serial link, or gives up after its attempts (the bytes on the wire
\* are followed in send_write)
setup_send(i) ==
    /\ setups[i].command # ""
    /\ setups' = [setups EXCEPT ![i].command = ""]
    /\ AppFrame

\* what a drain can leave in arduino_data
TickLines == {<<>>, Strip(<<" ", "1", ";", "7", "\n">>)}

\* setup.read_frame() as one step, on the fields of one setup; the clock is
\* taken to advance one second per recorded frame
ReadFrame(setup, got, arduino_data) ==
    LET recorded == got /\ setup.recording
    IN  [setup EXCEPT
           !.latest_status = IF arduino_data # <<>>
                             THEN parse_arduino_status(arduino_data) ELSE @,
           !.last_arduino_line = IF arduino_data # <<>> THEN arduino_data ELSE @,
           !.frames = IF recorded THEN @ + 1 ELSE @,
           !.elapsed_time = IF recorded THEN setup.frames + 1 ELSE @]

\* a tick that reads a frame from every setup
ticked_all == Indexes

\* update_video: setup = self.setups[self.current_setup]
ticked == {current_setup}

\* App.update_video, each time its timer fires
update_video ==
    /\ \E got \in BOOLEAN, arduino_data \in TickLines :
         /\ \A i \in ticked : (got /\ setups[i].recording) => setups[i].frames < MaxTickFrames
         /\ setups' = [i \in Indexes |->
                         IF i \in ticked THEN ReadFrame(setups[i], got, arduino_data)
                         ELSE setups[i]]
    /\ AppFrame

\* configuration.txt defines between one and MaxSetups usable setups
AppSpecInit ==
    /\ DeviceInit /\ simulated
    /\ FreshRoot /\ NoCalls /\ EmptyRegistry /\ NoLine /\ Running /\ WatcherIdle
    /\ \E n \in 1..MaxSetups : AppInit(n)

\* the setups under the tick: recording, lock state and switching
NextApp ==
    \/ type_mouse_id
    \/ next_setup
    \/ prev_setup
    \/ toggle_auto_cycle
    \/ auto_cycle_loop
    \/ App_toggle_lock_state
    \/ App_start_recording
    \/ App_stop_recording
    \/ update_video
    \/ \E i \in Indexes : setup_send(i)

AppSpec == AppSpecInit /\ [][NextApp]_vars

\* the two entries across switches of the active setup
NextSwitch ==
    \/ type_mouse_id
    \/ type_duration
    \/ next_setup
    \/ prev_setup
    \/ toggle_auto_cycle
    \/ auto_cycle_loop
    \/ App_start_recording

SwitchSpec == AppSpecInit /\ [][NextSwitch]_vars

(* ------------------------------------------------------------------ *)
(* create_exp_id statement by statement, run by several processes       *)
(* (acquisition programs that share the remote repository)             *)
(* ------------------------------------------------------------------ *)

\* os.makedirs(candidate_dir, exist_ok=True) raising because the directory
\* is there: a call that refuses an existing directory
MakeDirsRaisesOnExisting(existing, exp_id) == Exists(existing, exp_id)

\* os.makedirs(candidate_dir, exist_ok=True) raising because the directory
\* is there: exist_ok=True never does
MakeDirsRaises(existing, exp_id) == FALSE

\* the candidate the process's loop is at
Candidate(p) == possible_exp_id(rdate[p], rbase[p], rmouse[p])

\* create_exp_id up to the loop: the arguments, current_date,
\* base_exp_number = 0 (the repository and the animal directory are there)
create_exp_id_enter(p) ==
    /\ rpc[p] \in {"idle", "done"}
    /\ Cardinality(dirs) < MaxAllocs
    /\ \E mouse_id \in MouseIds : rmouse' = [rmouse EXCEPT ![p] = mouse_id]
    /\ rdate' = [rdate EXCEPT ![p] = today]
    /\ rbase' = [rbase EXCEPT ![p] = 0]
    /\ rfound' = [rfound EXCEPT ![p] = FALSE]
    /\ rret' = [rret EXCEPT ![p] = <<>>]
    /\ rraised' = [rraised EXCEPT ![p] = FALSE]
    /\ rpc' = [rpc EXCEPT ![p] = "probe"]
    /\ UNCHANGED <<allocVars, deviceVars, regVars, appVars, parseVars, extVars>>

\* one iteration of the loop: base_exp_number += 1, os.path.exists(candidate_dir)
create_exp_id_probe(p) ==
    /\ rpc[p] = "probe"
    /\ rbase' = [rbase EXCEPT ![p] = rbase[p] + 1]
    /\ rpc' = [rpc EXCEPT ![p] =
                 IF Exists(dirs, possible_exp_id(rdate[p], rbase[p] + 1, rmouse[p]))
                 THEN "probe" ELSE "claim"]
    /\ UNCHANGED <<rmouse, rdate, rfound, rret, rraised>>
    /\ UNCHANGED <<allocVars, deviceVars, regVars, appVars, parseVars, extVars>>

\* os.makedirs(candidate_dir, exist_ok=True); return possible_exp_id, candidate_dir
create_exp_id_claim(p) ==
    /\ rpc[p] = "claim"
    /\ rfound' = [rfound EXCEPT ![p] = Exists(dirs, Candidate(p))]
    /\ IF MakeDirsRaises(dirs, Candidate(p))
       THEN /\ rraised' = [rraised EXCEPT ![p] = TRUE]
            /\ UNCHANGED <<dirs, rret>>
       ELSE /\ dirs' = MakeDirs(dirs, Candidate(p))
            /\ rret' = [rret EXCEPT ![p] = Candidate(p)]
            /\ UNCHANGED rraised
    /\ rpc' = [rpc EXCEPT ![p] = "done"]
    /\ UNCHANGED <<rmouse, rdate, rbase, today, dirs0, allocs>>
    /\ UNCHANGED <<deviceVars, regVars, appVars, parseVars, extVars>>

NextRace ==
    \/ \E p \in Procs : create_exp_id_enter(p)
    \/ \E p \in Procs : create_exp_id_probe(p)
    \/ \E p \in Procs : create_exp_id_claim(p)

RaceSpec == Init /\ [][NextRace]_vars

(* ------------------------------------------------------------------ *)
(* Fair scheduling of the dispatch threads                              *)
(* ------------------------------------------------------------------ *)

\* Every thread that can run does run (the OS schedules it, sleep and write
\* return), the tick leaves its with block, and a thread blocked on
\* serial_lock gets it at some release: the lock is free again and again,
\* for the 30 ms between two ticks.
DispatchFairness ==
    /\ WF_vars(read_frame_drain)
    /\ \A w \in Workers :
         /\ WF_vars(send_loop(w))
         /\ SF_vars(send_acquire(w))
         /\ WF_vars(send_write(w))
         /\ WF_vars(send_backoff(w))

FairDispatchSpec == DispatchSpec /\ DispatchFairness

\* The tick blocked at its with statement gets the lock at some release as
\* well: a dispatch thread holds it for the length of one write only.
FairTickSpec == DispatchSpec /\ DispatchFairness /\ SF_vars(read_frame_acquire)

(* ------------------------------------------------------------------ *)
(* Properties                                                          *)
(* ------------------------------------------------------------------ *)

Started(w) == pc[w] # "idle"
Finished(w) == pc[w] = "done"

\* what holds of every dispatch thread at every moment
AttemptsBounded ==
    \A w \in Workers :
        /\ writes[w] <= 3
        /\ sent[w] => (Finished(w) /\ writes[w] = fails[w] + 1)
        /\ abandoned[w] => (Finished(w) /\ ~sent[w])
        /\ (Started(w) /\ fails[w] = 3) => (abandoned[w] \/ pc[w] \in {"sleep", "loop"})
        /\ Finished(w) => /\ writes[w] >= 1
                          /\ sent[w] \/ abandoned[w]
                          /\ abandoned[w] <=> fails[w] = 3

\* C1: every dispatch thread makes at least 1 and at most 3 write attempts,
\* stops at its first successful write, logs the abandonment warning exactly
\* when 3 attempts have failed, and terminates in both cases.
C1_BoundedRetry ==
    /\ []AttemptsBounded
    /\ \A w \in Workers : (Started(w) ~> Finished(w))

\* C1 witness: one thread gave up after three failures while another one
\* succeeded on its second attempt
C1_Witness ==
    \E w, v \in Workers :
        /\ abandoned[w] /\ fails[w] = 3
        /\ Finished(v) /\ sent[v] /\ writes[v] = 2

\* threads inside an access to the serial channel
InWrite == {w \in Workers : pc[w] = "write"}
InDrain == IF main_pc = "rf_drain" THEN 1 ELSE 0

\* C2: at most one thread at a time is inside an access to the serial
\* channel: the drain of read_frame never overlaps a dispatch thread's write,
\* and no two dispatch threads are inside a write at the same time.
C2_SerialMutualExclusion == Cardinality(InWrite) + InDrain <= 1

\* C2 witness: one dispatch thread is inside its write while the other one and
\* the tick both wait for the lock
C2_Witness ==
    /\ main_pc = "rf_lock"
    /\ \E w, v \in Workers : pc[w] = "write" /\ pc[v] = "acquire"

\* a command sequence is in flight from the thread's first attempt until its
\* success or abandonment, backoff waits included
InFlight(w) == pc[w] \in {"acquire", "write", "sleep", "loop"} /\ attempts[w] >= 1

\* C3: at any time at most one command sequence is in flight for the setup,
\* so a later apply's thread does not write before the earlier apply's
\* sequence has finished.
C3_OneSequenceInFlight == Cardinality({w \in Workers : InFlight(w)}) <= 1

\* C9 as claimed: read_frame never waits on a dispatch thread, so whenever it
\* has reached its with statement it can enter
C9_NeverWaitsOnWorker == (main_pc = "rf_lock") => ENABLED read_frame_acquire

\* C9 amended: read_frame waits at its with statement exactly while some
\* dispatch thread is inside a single write; threads in backoff, between
\* attempts, waiting for the lock or finished never make it wait.
C9_WaitsOnlyDuringWrite ==
    (main_pc = "rf_lock") => (ENABLED read_frame_acquire <=> InWrite = {})

\* C9 witness: read_frame is at its with statement and free to enter while one
\* dispatch thread is in backoff and the other waits for the lock
C9_Witness ==
    /\ main_pc = "rf_lock"
    /\ ENABLED read_frame_acquire
    /\ \E w, v \in Workers : pc[w] = "sleep" /\ pc[v] = "acquire"

\* C4: after start_recording the event sink holds as many rows as the video
\* sink holds frames and as read_frame calls yielded a frame while
\* recording, the k-th row belongs to the k-th frame, and a read_frame that
\* obtained no frame returns no frame.
C4_RowsMatchFrames ==
    /\ Len(rows) = rec_returned
    /\ Len(frames) = rec_returned
    /\ \A k \in 1..Len(rows) : k <= Len(frames) /\ rows[k].frame = frames[k]
    /\ ~ret => returned # "frame"

\* C5: appending a recorded frame is all-or-nothing: a row is written only
\* for a frame that the video sink took, and after any append both sinks
\* hold the same number of entries.
C5_AppendAllOrNothing ==
    /\ \A k \in 1..Len(rows) : \E j \in 1..Len(frames) : frames[j] = rows[k].frame
    /\ Len(frames) = Len(rows)

\* everything stop_recording must leave alone when it is called a second time
stopFrame == <<lock_state, serialVars, statusVars, main_pc, tick_scheduled, ret, returned,
               recVars, workerVars, allocVars>>

\* C6: stop_recording is idempotent: every call, also on a setup that never
\* recorded, leaves recording false and neither the setup's video sink nor
\* its event sink open, and a call that directly follows another call
\* changes nothing.
C6_StopIdempotent ==
    [][stop_recording =>
          /\ ~recording'
          /\ writer' # "open"
          /\ csv_file' # "open"
          /\ (last_op \in {"stop", "stop_again"}) => UNCHANGED stopFrame]_vars

\* C6 witness: stop_recording was called twice in a row after a recording
C6_Witness ==
    /\ last_op = "stop_again"
    /\ writer = "closed"
    /\ csv_file = "closed"
    /\ ~recording

\* sinks that are open, whether the setup still refers to them or not
OpenVideo == orphan_video + (IF writer = "open" THEN 1 ELSE 0)
OpenCsv == orphan_csv + (IF csv_file = "open" THEN 1 ELSE 0)

\* C7: the setup has at most one open video sink and one open event sink at
\* any time, nothing is written to a closed sink, and after stop_recording
\* or shutdown every sink that a start_recording opened is closed.
C7_SinksClosed ==
    /\ OpenVideo <= 1
    /\ OpenCsv <= 1
    /\ ~wrote_closed
    /\ (last_op \in {"stop", "stop_again", "close"}) => (OpenVideo = 0 /\ OpenCsv = 0)

\* C8: the arduino_data field of every row, at the time it is written, is the
\* last telemetry line received since the previous recorded frame (or since
\* recording start), empty if there was none.
C8_RowHasLastLine ==
    rows # <<>> => rows[Len(rows)].arduino_data = row_seen

\* the calls that returned an identifier
Returned == {i \in 1..Len(allocs) : ~allocs[i].raised}

\* the directories a call found: those there at the start and those that
\* earlier calls created
Before(i) == dirs0 \cup {allocs[j].exp_id : j \in {r \in Returned : r < i}}

\* the number a sequence of decimal digits stands for
RECURSIVE Value(_)
Value(ds) == IF ds = <<>> THEN 0 ELSE 10 * Value(SubSeq(ds, 1, Len(ds) - 1)) + ds[Len(ds)]

\* earlier or same calls for the same subject directory and date
SameKey(i) ==
    {j \in Returned : /\ j <= i
                      /\ allocs[j].date = allocs[i].date
                      /\ allocs[j].exp_id[3] = allocs[i].exp_id[3]}

\* C10: sequential create_exp_id calls return the lowest sequence number
\* (from 01, at least two digits, zero-padded) whose directory did not
\* exist, the directory exists when the call returns, the identifiers are
\* pairwise distinct, and on a fresh root the k-th call for a subject and
\* date returns sequence number k.
C10_LowestUnusedSequence ==
    \A i \in Returned :
        LET a == allocs[i]
        IN  /\ a.n >= 1
            /\ a.exp_id \notin Before(i)
            /\ \A m \in 1..(a.n - 1) : possible_exp_id(a.date, m, a.mouse_id) \in Before(i)
            /\ a.exp_id \in dirs
            /\ Len(a.exp_id[2]) >= 2
            /\ Value(a.exp_id[2]) = a.n
            /\ a.exp_id[1] = a.date
            /\ \A j \in Returned : j # i => allocs[j].exp_id # a.exp_id
            /\ dirs0 = {} => a.n = Cardinality(SameKey(i))

\* C10 witness: on a fresh root two calls for the same subject on the same
\* day returned 01 and then 02
C10_Witness ==
    /\ dirs0 = {}
    /\ \E i, j \in Returned :
         /\ i < j
         /\ allocs[i].exp_id = <<1, <<0, 1>>, "m1">>
         /\ allocs[j].exp_id = <<1, <<0, 2>>, "m1">>

\* C11: the existence check and the creation of the directory are separate
\* steps.  A call whose check passed creates (or finds) the directory and
\* returns its candidate without an error whatever happened in between, so
\* two calls for the same subject, date and root that interleave between
\* check and creation return the same identifier; and two finished calls
\* hold the same identifier only through such an interleaving (one of them
\* found the directory already there when it created it).
C11_CheckThenCreateNotAtomic ==
    /\ \A p \in Procs :
         rpc[p] = "done" => (~rraised[p] /\ rret[p] = Candidate(p))
    /\ \A p, q \in Procs :
         (p # q /\ rpc[p] = "done" /\ rpc[q] = "done" /\ rret[p] = rret[q])
            => (rfound[p] \/ rfound[q])

\* C11 witness: two processes returned the same identifier, neither raised
C11_Witness ==
    \E p, q \in Procs :
        /\ p # q
        /\ rpc[p] = "done" /\ rpc[q] = "done"
        /\ ~rraised[p] /\ ~rraised[q]
        /\ rret[p] # <<>>
        /\ rret[p] = rret[q]
        /\ rmouse[p] = rmouse[q] /\ rdate[p] = rdate[q]

\* the calls of generate_and_register_exp that fell back / that allocated
Fallbacks == {i \in 1..Len(exps) : exps[i].remote_exp_dir = <<>>}
Allocated == {i \in 1..Len(exps) : exps[i].remote_exp_dir # <<>>}

\* C12: when create_exp_id fails, generate_and_register_exp logs a warning
\* and returns a fallback identifier that no successful allocation returns,
\* and start_recording proceeds with the identifier it was given.
C12_FallbackDistinguishable ==
    /\ \A i \in Fallbacks : exps[i].warnings >= 1
    /\ \A i \in Fallbacks : \A j \in Allocated : exps[i].exp_id # exps[j].exp_id
    /\ exps # <<>> => setup_exp_id = exps[Len(exps)].exp_id

\* the rows the successful allocations of exps[from..] should have left
RECURSIVE ExpectedRows(_)
ExpectedRows(from) ==
    IF from > Len(exps) THEN <<>>
    ELSE IF from \in Allocated
         THEN <<(<<exps[from].exp_id, exps[from].exp_id[1]>>)>> \o ExpectedRows(from + 1)
         ELSE ExpectedRows(from + 1)

\* C13: exp_list.txt holds exactly one row (experiment id, timestamp) for
\* every successful allocation, in the order of the allocations, and nothing
\* else: no row is rewritten or removed and no fallback identifier is listed.
C13_RegistryRows == exp_list = ExpectedRows(1)

\* C14: a read_frame whose pending lines all decode empties the input
\* buffer; if the last pending line is not empty (after strip) then
\* latest_status is the parse of that line and last_arduino_line is that
\* line, whatever came before it; if nothing was pending, both are
\* unchanged.  This does not depend on cap.read() having returned a frame.
C14_DrainKeepsLast ==
    [][read_frame_drain =>
          LET pending == IF simulated THEN <<>> ELSE serial_in
              last == Strip(pending[Len(pending)])
          IN  (\A i \in 1..Len(pending) : ~DecodeRaises(pending[i])) =>
                 /\ ~simulated => serial_in' = <<>>
                 /\ (pending # <<>> /\ last # <<>>) =>
                        /\ latest_status' = parse_arduino_status(last)
                        /\ last_arduino_line' = last
                 /\ pending = <<>> => UNCHANGED statusVars]_vars

\* C14 witness: a tick without a frame has kept the line "0;5;m" and its status
C14_Witness ==
    /\ main_pc = "idle"
    /\ ~ret
    /\ returned = "nothing"
    /\ last_arduino_line = <<"0", ";", "5", ";", "m">>
    /\ latest_status = <<(<<"l","o","c","k","e","d">>), <<"5">>, <<"m">> >>

\* positions of the separator in the line
Semis == {i \in 1..Len(line) : line[i] = ";"}

\* f without its leading and trailing white space: the pieces f[a..b] with
\* only white space outside and none at either end
TrimsOf(f) ==
    {SubSeq(f, ab[1], ab[2]) :
        ab \in {cd \in (1..(Len(f) + 1)) \X (0..Len(f)) :
                  /\ \A k \in 1..(cd[1] - 1) : IsSpace(f[k])
                  /\ \A k \in (cd[2] + 1)..Len(f) : IsSpace(f[k])
                  /\ cd[1] <= cd[2] => (~IsSpace(f[cd[1]]) /\ ~IsSpace(f[cd[2]]))}}

\* the brake text of a trimmed first field
BrakeOf(field) ==
    IF field = <<"0">> THEN <<"l","o","c","k","e","d">>
    ELSE IF field = <<"1">> THEN <<"u","n","l","o","c","k","e","d">>
    ELSE field

\* C15: parse_arduino_status never raises; a line that does not hold exactly
\* two separators (three fields) gives no status; a line of three fields
\* gives (brake, wheel_position, mode), each the field without surrounding
\* white space, brake being locked for "0", unlocked for "1" and the field
\* itself otherwise.
C15_ParseTotal ==
    status.called =>
        /\ ~status.raised
        /\ Cardinality(Semis) # 2 => status.value = NoStatus
        /\ Cardinality(Semis) = 2 =>
              LET i == CHOOSE k \in Semis : \A m \in Semis : k <= m
                  j == CHOOSE k \in Semis : \A m \in Semis : k >= m
              IN  \E f1 \in TrimsOf(SubSeq(line, 1, i - 1)),
                     f2 \in TrimsOf(SubSeq(line, i + 1, j - 1)),
                     f3 \in TrimsOf(SubSeq(line, j + 1, Len(line))) :
                        status.value = <<BrakeOf(f1), f2, f3>>

\* C15 witness: a three-field line with a padded "1" in front was parsed
C15_Witness ==
    /\ status.called
    /\ line = <<" ", "1", ";", ";">>
    /\ status.value = <<(<<"u","n","l","o","c","k","e","d">>), <<>>, <<>> >>

\* the command table of the serial protocol
Token(state) ==
    IF state = "automatic" THEN "a"
    ELSE IF state = "locked" THEN "b"
    ELSE IF state = "unlocked" THEN "c"
    ELSE "none"

\* C16: a dispatch thread is started with the token of the lock state that
\* is current at the send_lock_state call (automatic a, locked b, unlocked
\* c); while the thread lives its command does not change, whatever happens
\* to the setup's lock state; and every write of the thread that succeeds,
\* first attempt or retry, puts that command on the wire.
C16_CommandOfCallTime ==
    [][\A w \in Workers :
          /\ (FreeSlot(w) /\ pc'[w] = "loop") => command'[w] = Token(lock_state')
          /\ ~FreeSlot(w) => command'[w] = command[w]
          /\ (pc[w] = "write" /\ sent'[w]) => wire' = command[w]]_vars

\* C16 witness: a thread wrote its command on a retry after the lock state
\* had been changed again
C16_Witness ==
    \E w \in Workers :
        /\ sent[w]
        /\ fails[w] >= 1
        /\ wire = command[w]
        /\ command[w] # Token(lock_state)

LockStates == {"automatic", "locked", "unlocked"}

\* the order of the toggle
Cycle(state) ==
    IF state = "automatic" THEN "unlocked"
    ELSE IF state = "unlocked" THEN "locked"
    ELSE "automatic"

\* C17: the lock state of every setup is automatic, locked or unlocked; three
\* toggles bring a state back to itself; and a step changes a lock state
\* only if it is the toggle on the active setup, which moves that setup
\* automatic -> unlocked -> locked -> automatic and no other: starting and
\* stopping a recording, the tick, switching the active setup, auto-cycle
\* and the dispatch threads leave every lock state as it is.
C17_LockStateOnlyToggles ==
    /\ [](\A i \in Indexes :
            /\ setups[i].lock_state \in LockStates
            /\ next_lock_state(next_lock_state(next_lock_state(setups[i].lock_state)))
                  = setups[i].lock_state)
    /\ [][(\E i \in Indexes : setups'[i].lock_state # setups[i].lock_state) =>
            /\ App_toggle_lock_state
            /\ \A i \in Indexes :
                  IF i = current_setup
                  THEN setups'[i].lock_state = Cycle(setups[i].lock_state)
                  ELSE setups'[i].lock_state = setups[i].lock_state]_vars

\* C17 witness: a setup toggled twice keeps "locked" while it is not active,
\* its thread over, auto-cycle on and the active setup recording frames
C17_Witness ==
    \E i \in Indexes :
        /\ i # current_setup
        /\ setups[i].lock_state = "locked"
        /\ setups[i].command = ""
        /\ auto_cycle
        /\ setups[current_setup].recording
        /\ setups[current_setup].frames > 0

\* C18: a tick changes no field of a setup that is not the active one (its
\* recording flag, sink, latest_status, last_arduino_line and elapsed_time
\* stay, so a recording setup that is not active gets no frame), while the
\* dispatch thread of any setup, active or not, can run.
C18_TickTouchesActiveOnly ==
    /\ [][update_video =>
            \A i \in Indexes : i # current_setup => setups'[i] = setups[i]]_vars
    /\ [](\A i \in Indexes : setups[i].command # "" => ENABLED setup_send(i))

\* C18 witness: the active setup has recorded a frame while another setup,
\* recording too and with a live dispatch thread, has none
C18_Witness ==
    \E i \in Indexes :
        /\ i # current_setup
        /\ setups[i].recording
        /\ setups[i].frames = 0
        /\ setups[i].command # ""
        /\ setups[current_setup].recording
        /\ setups[current_setup].frames > 0

\* k times next_setup from index i
RECURSIVE NextTimes(_, _)
NextTimes(i, k) == IF k = 0 THEN i ELSE NextTimes(advance(i, 1), k - 1)

\* C19: with n >= 1 setups the active index stays in 0..n-1; next_setup
\* moves it to the following index and from the last to the first,
\* prev_setup to the preceding one and from the first to the last, so next
\* then prev, prev then next, and n times next come back to the same index;
\* the auto-cycle timer moves it like next_setup when auto-cycle is on and
\* leaves it when auto-cycle is off.
C19_ActiveIndexCycles ==
    /\ [](n_setups >= 1 /\ current_setup \in 0..(n_setups - 1))
    /\ [](\A i \in Indexes :
            /\ advance(advance(i, 1), -1) = i
            /\ advance(advance(i, -1), 1) = i
            /\ NextTimes(i, n_setups) = i)
    /\ [][next_setup =>
            current_setup' = IF current_setup = n_setups - 1 THEN 0
                             ELSE current_setup + 1]_vars
    /\ [][prev_setup =>
            current_setup' = IF current_setup = 0 THEN n_setups - 1
                             ELSE current_setup - 1]_vars
    /\ [][auto_cycle_loop =>
            current_setup' = IF ~auto_cycle THEN current_setup
                             ELSE IF current_setup = n_setups - 1 THEN 0
                             ELSE current_setup + 1]_vars

\* C19 witness: with auto-cycle on the index is back at the first setup
\* after the user typed into the last one
C19_Witness ==
    /\ n_setups = MaxSetups
    /\ current_setup = 0
    /\ auto_cycle
    /\ entered[n_setups - 1].mouse_id # <<>>

SimulatedQuiet ==
    simulated =>
        /\ ~in_waiting
        /\ Pending = <<>>
        /\ returned # "raised"
        /\ \A w \in Workers :
             /\ fails[w] = 0
             /\ ~abandoned[w]
             /\ attempts[w] <= 1
             /\ writes[w] <= 1
             /\ pc[w] = "done" => sent[w] /\ writes[w] = 1

\* on the stand-in the drain reads nothing and keeps the status fields, and a
\* thread's write succeeds
SimulatedSteps ==
    simulated =>
        /\ read_frame_drain => /\ serial_in' = serial_in
                               /\ UNCHANGED statusVars
                               /\ returned' \in {"frame", "nothing"}
        /\ \A w \in Workers : send_write(w) => sent'[w] /\ pc'[w] = "done"

\* C21: with the simulated serial link read_frame never raises and never
\* blocks for good, whatever dispatch threads run beside it: the drain reads
\* zero lines and ends, every read_frame that waits for the lock returns, and
\* every dispatch thread's write succeeds on its first attempt.
C21_SimulatedLinkQuiet ==
    /\ []SimulatedQuiet
    /\ [][SimulatedSteps]_vars
    /\ (simulated /\ main_pc = "rf_lock") ~> (main_pc = "idle")
    /\ \A w \in Workers : (simulated /\ Started(w)) ~> (pc[w] = "done" /\ sent[w])

\* C21 witness: on the stand-in a dispatch thread has sent on its first
\* attempt while read_frame waits for the lock a second thread holds
C21_Witness ==
    /\ simulated
    /\ main_pc = "rf_lock"
    /\ \E w, v \in Workers :
         /\ pc[w] = "done" /\ sent[w] /\ attempts[w] = 1
         /\ pc[v] = "write"

(* ------------------------------------------------------------------ *)
(* Startup: App.__init__ and the main program                           *)
(* ------------------------------------------------------------------ *)

\* App.__init__ up to the call of load_config: self.setups = []
StartupInit ==
    /\ DeviceInit /\ simulated
    /\ FreshRoot /\ NoCalls /\ EmptyRegistry /\ NoLine
    /\ AppInit(0)
    /\ WatcherIdle
    /\ startup_pc = "load_config"
    /\ quit_called = FALSE

\* load_config: one CameraSetup per section whose camera opens; with none,
\* the error is logged and self.root.quit() is called; then it returns
load_config ==
    /\ startup_pc = "load_config"
    /\ \E n \in 0..MaxSetups :
         /\ n_setups' = n
         /\ setups' = [i \in 0..(n - 1) |-> NewSetup]
         /\ entered' = [i \in 0..(n - 1) |-> [mouse_id |-> <<>>, duration |-> <<>>]]
         /\ quit_called' = (n = 0)
    /\ startup_pc' = "build_gui"
    /\ UNCHANGED <<current_setup, auto_cycle, auto_cycle_var, mouse_id_entry,
                   duration_entry>>
    /\ UNCHANGED <<deviceVars, allocVars, raceVars, regVars, parseVars, watchVars>>

\* self.setups[self.current_setup] raises IndexError
IndexRaises == current_setup \notin DOMAIN setups

\* build_gui: the widgets, then update_setup_label() and
\* update_lock_state_button(), which both index self.setups
build_gui ==
    /\ startup_pc = "build_gui"
    /\ mouse_id_entry' = <<>>
    /\ duration_entry' = <<>>
    /\ auto_cycle_var' = FALSE
    /\ startup_pc' = IF IndexRaises THEN "raised" ELSE "update_video"
    /\ UNCHANGED <<n_setups, current_setup, auto_cycle, setups, entered, quit_called>>
    /\ UNCHANGED <<deviceVars, allocVars, raceVars, regVars, parseVars, watchVars>>

\* App.__init__: self.update_video(), the first tick
first_update_video ==
    /\ startup_pc = "update_video"
    /\ IF IndexRaises
       THEN /\ startup_pc' = "raised"
            /\ UNCHANGED setups
       ELSE /\ startup_pc' = "auto_cycle_loop"
            /\ \E got \in BOOLEAN, arduino_data \in TickLines :
                 setups' = [setups EXCEPT ![current_setup] =
                                ReadFrame(setups[current_setup], got, arduino_data)]
    /\ UNCHANGED <<n_setups, current_setup, auto_cycle, auto_cycle_var, mouse_id_entry,
                   duration_entry, entered, quit_called>>
    /\ UNCHANGED <<deviceVars, allocVars, raceVars, regVars, parseVars, watchVars>>

\* App.__init__: self.auto_cycle_loop(); self.auto_cycle is still False, the
\* timer is armed, __init__ returns and the main program enters mainloop
first_auto_cycle_loop ==
    /\ startup_pc = "auto_cycle_loop"
    /\ ~auto_cycle
    /\ startup_pc' = "mainloop"
    /\ UNCHANGED <<appVars, quit_called>>
    /\ UNCHANGED <<deviceVars, allocVars, raceVars, regVars, parseVars, watchVars>>

\* startup, then the handlers under mainloop
NextStartup ==
    \/ load_config
    \/ build_gui
    \/ first_update_video
    \/ first_auto_cycle_loop
    \/ (startup_pc = "mainloop" /\ NextSwitch)

StartupSpec == StartupInit /\ [][NextStartup]_vars

\* C22: when load_config finds no usable setup (it logs the error and calls
\* quit), no later startup step runs against the empty setup list and
\* startup does not raise.
C22_EmptyConfigExitsCleanly ==
    quit_called => startup_pc \notin {"raised", "update_video", "auto_cycle_loop", "mainloop"}

\* the state that refutes C22: no setup, quit was called, and build_gui has
\* raised IndexError out of App.__init__
C22_StartupRaised ==
    /\ n_setups = 0
    /\ quit_called
    /\ startup_pc = "raised"

(* ------------------------------------------------------------------ *)
(* The order of commands on the serial link                            *)
(* ------------------------------------------------------------------ *)

\* no dispatch thread is running, at least one has run, and every one that
\* has run succeeded: so did the thread of the most recent send_lock_state
\* call, which still occupies its slot
AllSent ==
    /\ \A w \in Workers : pc[w] \in {"idle", "done"}
    /\ \A w \in Workers : pc[w] = "done" => sent[w]
    /\ \E w \in Workers : pc[w] = "done"

\* C23: once all dispatch threads of the setup have finished and the thread
\* of the most recent send_lock_state call succeeded, the last command
\* written to the serial link is the token of the current lock state.
C23_LastWriteIsCurrentState == AllSent => wire = command_map(lock_state)

\* the state that refutes C23: two threads have both succeeded, the one
\* started first after a failed attempt, and the link last received the
\* token of a lock state that is no longer the current one
C23_Overtaken ==
    /\ AllSent
    /\ wire # command_map(lock_state)
    /\ \E w \in Workers : sent[w] /\ fails[w] >= 1 /\ wire = command[w]

(* ------------------------------------------------------------------ *)
(* Release of the serial lock                                          *)
(* ------------------------------------------------------------------ *)

\* the tick and the dispatch threads on a link whose drain can raise: an
\* undecodable line arrives in the empty buffer, and the camera delivers its
\* frames (what a decodable line does to the status fields and what a missing
\* frame does to the return value have no part in locking)
NextLock ==
    \/ (serial_in = <<>> /\ Arrive /\ DecodeRaises(serial_in'[1]))
    \/ toggle_lock_state
    \/ (read_frame_capture /\ ret')
    \/ read_frame_acquire
    \/ read_frame_drain
    \/ \E w \in Workers : send_loop(w)
    \/ \E w \in Workers : send_acquire(w)
    \/ \E w \in Workers : send_write(w)
    \/ \E w \in Workers : send_backoff(w)

LockSpec == Init /\ [][NextLock]_vars

\* every single serial read and write returns, every thread is scheduled, and
\* a thread blocked on serial_lock gets it at some release
FairLockSpec == LockSpec /\ DispatchFairness /\ SF_vars(read_frame_acquire)

\* the lock is held exactly while one thread is inside its with block
HeldInside == serial_lock <=> (main_pc = "rf_drain" \/ InWrite # {})

\* a step that leaves a with block, by return or by exception, releases
ReleasedOnExit ==
    /\ read_frame_drain => ~serial_lock'
    /\ \A w \in Workers : send_write(w) => ~serial_lock'

\* C24: the serial lock is always released, whether a write succeeds or
\* raises and whether the drain completes or raises: it is held only by a
\* thread inside its with block, the step that leaves the block frees it,
\* and the tick and every dispatch thread waiting for it get it.
C24_LockAlwaysReleased ==
    /\ []HeldInside
    /\ [][ReleasedOnExit]_vars
    /\ (main_pc = "rf_lock") ~> (main_pc = "rf_drain")
    /\ \A w \in Workers : (pc[w] = "acquire") ~> (pc[w] = "write")

\* C24 witness: the drain has raised and a write has raised, and after both
\* another dispatch thread is inside its write
C24_Witness ==
    /\ returned = "raised"
    /\ \E w, v \in Workers :
         /\ w # v
         /\ fails[w] >= 1 /\ pc[w] = "sleep"
         /\ pc[v] = "write"

(* ------------------------------------------------------------------ *)
(* Identifiers of the recordings of one day                            *)
(* ------------------------------------------------------------------ *)

\* generate_file_paths and CameraSetup.start_recording: the video, event and
\* metadata files of a recording are named by subject and identifier only
FilesOf(e) == <<e.mouse_id, e.exp_id>>

\* C25: any two recordings started through App.start_recording for the same
\* subject on the same date have different experiment identifiers and so
\* different files, also when the fallback identifier is used.
C25_DistinctIdentifiers ==
    \A i, j \in 1..Len(exps) :
        (i < j /\ exps[i].mouse_id = exps[j].mouse_id) =>
            /\ exps[i].exp_id # exps[j].exp_id
            /\ FilesOf(exps[i]) # FilesOf(exps[j])

\* the state that refutes C25: two recordings of one subject carry the same
\* identifier, the later one obtained by fallback
C25_SameIdentifierTwice ==
    \E i, j \in 1..Len(exps) :
        /\ i < j
        /\ exps[i].mouse_id = exps[j].mouse_id
        /\ exps[i].exp_id = exps[j].exp_id
        /\ exps[j].remote_exp_dir = <<>>

(* ------------------------------------------------------------------ *)
(* The watcher: habituation_watcher.run_loop                            *)
(* ------------------------------------------------------------------ *)

\* rows the experiment list can hold, and the count at which enqueues stops
MaxRows == 3
MaxCounted == 2

\* the processed-list file a starting watcher can find: missing or empty,
\* written by an earlier run, with a blank line, with padding
ProcessedFiles ==
    { <<>>,
      << <<"a">> >>,
      << <<"a">>, <<>> >>,
      << <<" ", "b">> >> }

\* load_processed: {line.strip() for line in f if line.strip()}
load_processed(file) == {Strip(file[i]) : i \in 1..Len(file)} \ {<<>>}

\* read_exp_list: [row[0].strip() for row in reader if row and row[0].strip()]
read_exp_list(listing) ==
    LET kept == SelectSeq(listing, LAMBDA r : Strip(r) # <<>>)
    IN  [i \in 1..Len(kept) |-> Strip(kept[i])]

\* run_loop: new_ids = [eid for eid in exp_ids if eid not in processed]
NewIds(exp_ids, done) == SelectSeq(exp_ids, LAMBDA e : e \notin done)

\* run_loop is entered: cfg.simulate is set, the list is still empty
WatcherInit ==
    /\ DeviceInit /\ simulated
    /\ FreshRoot /\ NoCalls /\ EmptyRegistry /\ AppInit(1) /\ NoLine /\ Running
    /\ simulate \in BOOLEAN
    /\ list_rows = <<>>
    /\ processed_file \in ProcessedFiles
    /\ startup_lines = processed_file
    /\ processed = {}
    /\ watcher_pc = "start"
    /\ new_ids = <<>>
    /\ enqueues = [id \in Ids |-> 0]
    /\ failed = {}

\* an acquisition program appends a row to the experiment list
list_grows ==
    /\ watcher_pc # "off"
    /\ Len(list_rows) < MaxRows
    /\ \E row \in RowTexts : list_rows' = Append(list_rows, row)
    /\ UNCHANGED <<simulate, processed_file, startup_lines, processed, watcher_pc,
                   new_ids, enqueues, failed>>
    /\ UNCHANGED <<deviceVars, allocVars, raceVars, regVars, appVars, parseVars, startVars>>

\* run_loop: processed = load_processed(cfg.processed_list_path)
watcher_load ==
    /\ watcher_pc = "start"
    /\ processed' = load_processed(processed_file)
    /\ watcher_pc' = "poll"
    /\ UNCHANGED <<simulate, list_rows, processed_file, startup_lines, new_ids, enqueues,
                   failed>>
    /\ UNCHANGED <<deviceVars, allocVars, raceVars, regVars, appVars, parseVars, startVars>>

\* run_loop: one poll up to the for loop.  read_exp_list returns the rows or
\* raises; in that case the outer handler logs, sleeps, and the loop goes on.
\* With nothing new the for loop is empty and the poll ends in its sleep.
poll(readable) ==
    /\ watcher_pc = "poll"
    /\ IF readable
       THEN /\ new_ids' = NewIds(read_exp_list(list_rows), processed)
            /\ watcher_pc' = IF new_ids' = <<>> THEN "poll" ELSE "enqueue"
       ELSE UNCHANGED <<new_ids, watcher_pc>>
    /\ UNCHANGED <<simulate, list_rows, processed_file, startup_lines, processed,
                   enqueues, failed>>
    /\ UNCHANGED <<deviceVars, allocVars, raceVars, regVars, appVars, parseVars, startVars>>

\* what one pass of the for loop body can do: enqueue_exp and append_processed
\* return ("ok"), append_processed raises ("unrecorded"), enqueue_exp raises
\* ("raised"); with simulate set enqueue_exp only logs
Outcomes == IF simulate THEN {"ok", "unrecorded"} ELSE {"ok", "unrecorded", "raised"}

\* a loop body that adds the identifier whatever happened
RecordedAlways(exp_id, out) == processed \cup {exp_id}

\* processed.add(exp_id): reached only if both calls before it returned
Recorded(exp_id, out) == IF out = "ok" THEN processed \cup {exp_id} ELSE processed

\* run_loop: one pass of the for loop over new_ids, its except clause
\* included; after the last pass the poll ends in its sleep
handle(exp_id, out) ==
    /\ watcher_pc = "enqueue"
    /\ new_ids # <<>>
    /\ exp_id = Head(new_ids)
    /\ out \in Outcomes
    /\ enqueues' = IF out # "raised" /\ enqueues[exp_id] < MaxCounted
                   THEN [enqueues EXCEPT ![exp_id] = @ + 1] ELSE enqueues
    /\ failed' = IF out = "raised" THEN failed \cup {exp_id} ELSE failed
    /\ processed_file' = IF out = "ok" THEN Append(processed_file, exp_id)
                         ELSE processed_file
    /\ processed' = Recorded(exp_id, out)
    /\ new_ids' = Tail(new_ids)
    /\ watcher_pc' = IF new_ids' = <<>> THEN "poll" ELSE "enqueue"
    /\ UNCHANGED <<simulate, list_rows, startup_lines>>
    /\ UNCHANGED <<deviceVars, allocVars, raceVars, regVars, appVars, parseVars, startVars>>

\* run_loop: KeyboardInterrupt, which no inner handler catches, ends the loop
interrupt ==
    /\ watcher_pc \in {"poll", "enqueue"}
    /\ watcher_pc' = "stopped"
    /\ UNCHANGED <<simulate, list_rows, processed_file, startup_lines, processed,
                   new_ids, enqueues, failed>>
    /\ UNCHANGED <<deviceVars, allocVars, raceVars, regVars, appVars, parseVars, startVars>>

NextWatcher ==
    \/ list_grows
    \/ watcher_load
    \/ \E readable \in BOOLEAN : poll(readable)
    \/ \E exp_id \in Ids, out \in {"ok", "unrecorded", "raised"} : handle(exp_id, out)
    \/ interrupt

WatcherSpec == WatcherInit /\ [][NextWatcher]_vars

\* the identifiers of the processed list at startup
AtStartup == load_processed(startup_lines)

\* C26: over any run of the watcher loop each experiment identifier is
\* successfully enqueued at most once, and an identifier that was in the
\* processed list at startup is never enqueued.
C26_EnqueuedAtMostOnce ==
    \A id \in Ids :
        /\ enqueues[id] <= 1
        /\ id \in AtStartup => enqueues[id] = 0

\* the state that refutes C26: an identifier listed on two rows has been
\* enqueued twice and both times recorded, in the one poll that found it
C26_EnqueuedTwice ==
    \E id \in Ids :
        /\ enqueues[id] = 2
        /\ failed = {}
        /\ Len(processed_file) = Len(startup_lines) + 2
        /\ \A i \in (Len(startup_lines) + 1)..Len(processed_file) : processed_file[i] = id

\* the watcher is scheduled, the experiment list can be read again and
\* again, and for each identifier enqueue_exp eventually returns
Enqueued(id) == \E out \in {"ok", "unrecorded"} : handle(id, out)

WatcherFairness ==
    /\ WF_vars(watcher_load)
    /\ WF_vars(poll(TRUE))
    /\ WF_vars(\E id \in Ids, out \in {"ok", "unrecorded", "raised"} : handle(id, out))
    /\ \A id \in Ids : SF_vars(Enqueued(id))

FairWatcherSpec == WatcherSpec /\ WatcherFairness

\* some row of the experiment list holds the identifier
Listed(id) == \E i \in 1..Len(list_rows) : Strip(list_rows[i]) = id

\* what this run has added to the set and to the file was enqueued before
RecordedAfterEnqueue ==
    /\ \A id \in processed \ AtStartup : enqueues[id] >= 1
    /\ Len(processed_file) >= Len(startup_lines)
    /\ \A i \in (Len(startup_lines) + 1)..Len(processed_file) :
         /\ processed_file[i] \in processed
         /\ enqueues[processed_file[i]] >= 1

\* a pass whose enqueue_exp raised records nothing and the loop goes on with
\* the rest of new_ids; after the load at startup an identifier enters the
\* set only in a pass whose enqueue and file append both returned
RaiseSkipsOne ==
    \A id \in Ids :
        /\ handle(id, "raised") =>
              /\ processed' = processed
              /\ processed_file' = processed_file
              /\ enqueues' = enqueues
              /\ new_ids' = Tail(new_ids)
              /\ (Tail(new_ids) # <<>>) => watcher_pc' = "enqueue"
        /\ (watcher_pc # "start" /\ id \notin processed /\ id \in processed') =>
              /\ handle(id, "ok")
              /\ processed_file' = Append(processed_file, id)

\* a poll that reads the list takes up every listed identifier that is not
\* processed, those that raised before included
PollRetries ==
    poll(TRUE) =>
        \A id \in Ids :
            (Listed(id) /\ id \notin processed) =>
                \E i \in 1..Len(new_ids') : new_ids'[i] = id

\* C27: an identifier is recorded as processed, in the file and in the set,
\* only after its enqueue succeeded; one whose enqueue raised stays
\* unprocessed, the rest of that poll's new identifiers is still handled, it
\* is taken up again by every later poll, and every listed identifier is
\* enqueued in the end if its enqueue eventually succeeds (unless the watcher
\* is stopped).
C27_RecordedAfterEnqueueAndRetried ==
    /\ []RecordedAfterEnqueue
    /\ [][RaiseSkipsOne]_vars
    /\ [][PollRetries]_vars
    /\ \A id \in Ids :
         (Listed(id) /\ watcher_pc # "stopped") ~>
             (enqueues[id] >= 1 \/ id \in AtStartup \/ watcher_pc = "stopped")

\* C27 witness: in one poll the enqueue of one identifier raised and the next
\* identifier was enqueued and recorded; a later poll took the first one up
\* again and its enqueue succeeded
C27_Witness ==
    \E id, other \in Ids :
        /\ id # other
        /\ id \in failed /\ other \notin failed
        /\ enqueues[id] = 1 /\ id \in processed
        /\ enqueues[other] = 1 /\ other \in processed
        /\ Len(processed_file) = Len(startup_lines) + 2
        /\ processed_file[Len(startup_lines) + 1] = other
        /\ processed_file[Len(startup_lines) + 2] = id


====
